---- MODULE Spec2Model ----
(***************************************************************************)
(* Model of src/lib/common/sequelize.utils.ts: the injection-token naming  *)
(* helpers (getModelToken, getConnectionToken, getConnectionPrefix,        *)
(* getConnectionName) and the retry operator handleRetry.                  *)
(*                                                                         *)
(* JavaScript values are records tagged by their typeof in field t.        *)
(* Strings are TLA+ strings, concatenated with \o as the template literals *)
(* and the + operator of the source concatenate them.                      *)
(***************************************************************************)
EXTENDS Integers, Sequences, FiniteSets, TLC

VARIABLES
  call,           \* the helper call made: function name and arguments
  result,         \* what that call returned or threw
  retryAttempts,  \* first argument of the handleRetry call
  retryDelay,     \* second argument of the handleRetry call
  failsBefore,    \* per subscription: failed source attempts before one succeeds
  pc,             \* per subscription: idle, attempt, delaying, complete, errored
  errorCount,     \* per subscription: accumulator of scan, seeded with 0
  subscriptions,  \* per subscription: how many times the source was subscribed
  failures,       \* per subscription: how many source attempts have failed
  emitted,        \* per subscription: values the current attempt has emitted
  timer,          \* per subscription: time elapsed since the pending failure
  delivered,      \* per subscription: values delivered to the subscriber
  raised          \* per subscription: the error delivered to the subscriber

tokenVars == <<call, result>>
retryVars == <<retryAttempts, retryDelay, failsBefore, pc, errorCount,
               subscriptions, failures, emitted, timer, delivered, raised>>
vars == <<call, result, retryAttempts, retryDelay, failsBefore, pc, errorCount,
          subscriptions, failures, emitted, timer, delivered, raised>>

-----------------------------------------------------------------------------
(* Bounds of the model *)

MaxAttempts == 3
MaxFail == 3
MaxDelay == 2
MaxEmit == 1
NumSubscribers == 2

-----------------------------------------------------------------------------
(* JavaScript values *)

Undefined == [t |-> "undefined"]
Null == [t |-> "null"]
Str(s) == [t |-> "string", v |-> s]
Fn(n) == [t |-> "function", name |-> n]
Options(n) == [t |-> "object", name |-> n]
Exception(n, c) == [t |-> "exception", name |-> n, context |-> c]

\* !x of JavaScript, for the values the helpers test
Falsy(x) ==
  \/ x.t = "undefined"
  \/ x.t = "null"
  \/ (x.t = "string" /\ x.v = "")

DEFAULT_CONNECTION_NAME == "default"
Sequelize == Fn("Sequelize")
CircularDependencyException(c) == Exception("CircularDependencyException", c)

Return(x) == [kind |-> "return", val |-> x]
Throw(x) == [kind |-> "throw", val |-> x]

\* a parameter with the default value DEFAULT_CONNECTION_NAME
DefaultConnection(arg) ==
  IF arg.t = "undefined" THEN Str(DEFAULT_CONNECTION_NAME) ELSE arg

-----------------------------------------------------------------------------
(* The naming helpers *)

getConnectionPrefixNoEmptyCheck(arg) ==
  LET connection == DefaultConnection(arg) IN
  IF connection = Str(DEFAULT_CONNECTION_NAME) THEN ""
  ELSE IF connection.t = "string" THEN connection.v \o "_"
  ELSE IF connection.name = Str(DEFAULT_CONNECTION_NAME) THEN ""
  ELSE IF connection.name.t = "string" THEN connection.name.v \o "_"
  ELSE "undefined_"

getConnectionPrefixNoSeparator(arg) ==
  LET connection == DefaultConnection(arg) IN
  IF connection = Str(DEFAULT_CONNECTION_NAME) THEN ""
  ELSE IF connection.t = "string" THEN connection.v
  ELSE IF connection.name = Str(DEFAULT_CONNECTION_NAME) \/ Falsy(connection.name)
       THEN ""
  ELSE connection.name.v

getConnectionPrefix(arg) ==
  LET connection == DefaultConnection(arg) IN
  IF connection = Str(DEFAULT_CONNECTION_NAME) THEN ""
  ELSE IF connection.t = "string" THEN connection.v \o "_"
  ELSE IF connection.name = Str(DEFAULT_CONNECTION_NAME) \/ Falsy(connection.name)
       THEN ""
  ELSE connection.name.v \o "_"

getModelTokenNoGuard(entity, arg) ==
  LET connection == DefaultConnection(arg)
      connectionPrefix == getConnectionPrefix(connection)
  IN IF entity.t = "function"
     THEN Return(Str(connectionPrefix \o entity.name \o "Repository"))
     ELSE Throw(Exception("TypeError", "name"))

getModelTokenNoPrefix(entity, arg) ==
  IF entity.t = "null" \/ entity.t = "undefined"
  THEN Throw(CircularDependencyException("@InjectModel()"))
  ELSE Return(Str(entity.name \o "Repository"))

getModelToken(entity, arg) ==
  LET connection == DefaultConnection(arg) IN
  IF entity.t = "null" \/ entity.t = "undefined"
  THEN Throw(CircularDependencyException("@InjectModel()"))
  ELSE LET connectionPrefix == getConnectionPrefix(connection)
       IN Return(Str(connectionPrefix \o entity.name \o "Repository"))

getConnectionTokenFromPrefix(arg) ==
  Return(Str(getConnectionPrefix(arg) \o "Connection"))

getConnectionToken(arg) ==
  LET connection == DefaultConnection(arg) IN
  IF Str(DEFAULT_CONNECTION_NAME) = connection THEN Return(Sequelize)
  ELSE IF connection.t = "string" THEN Return(Str(connection.v \o "Connection"))
  ELSE IF Str(DEFAULT_CONNECTION_NAME) = connection.name \/ Falsy(connection.name)
       THEN Return(Sequelize)
  ELSE Return(Str(connection.name.v \o "Connection"))

getConnectionName(options) ==
  IF ~Falsy(options) /\ ~Falsy(options.name)
  THEN Return(options.name)
  ELSE Return(Str(DEFAULT_CONNECTION_NAME))

-----------------------------------------------------------------------------
(* Arguments the helpers are called with *)

ConnectionNames == {"default", "", "db", "db_", "Default"}
ModelNames == {"User", "", "db_User", "Cat"}

OptionsArgs ==
  {Options(Undefined)} \cup {Options(Str(n)) : n \in ConnectionNames}
ConnectionArgs ==
  {Undefined} \cup {Str(n) : n \in ConnectionNames} \cup OptionsArgs
EntityArgs == {Null, Undefined} \cup {Fn(n) : n \in ModelNames}
\* getConnectionName takes an options object; its guard also admits none
NameArgs == {Undefined} \cup OptionsArgs

NoCall == [fn |-> "none"]
NoResult == [kind |-> "none"]

CallGetModelToken ==
  \E entity \in EntityArgs, connection \in ConnectionArgs :
    /\ call' = [fn |-> "getModelToken", entity |-> entity, connection |-> connection]
    /\ result' = getModelToken(entity, connection)
    /\ UNCHANGED retryVars

CallGetConnectionToken ==
  \E connection \in ConnectionArgs :
    /\ call' = [fn |-> "getConnectionToken", connection |-> connection]
    /\ result' = getConnectionToken(connection)
    /\ UNCHANGED retryVars

CallGetConnectionPrefix ==
  \E connection \in ConnectionArgs :
    /\ call' = [fn |-> "getConnectionPrefix", connection |-> connection]
    /\ result' = Return(Str(getConnectionPrefix(connection)))
    /\ UNCHANGED retryVars

CallGetConnectionName ==
  \E options \in NameArgs :
    /\ call' = [fn |-> "getConnectionName", connection |-> options]
    /\ result' = getConnectionName(options)
    /\ UNCHANGED retryVars

-----------------------------------------------------------------------------
(* handleRetry: source.pipe(retryWhen(e => e.pipe(scan(..., 0), delay(d)))) *)

Subscribers == 1..NumSubscribers
SuccessValue == "connection"
PartialValue == "partial"
NoError == [t |-> "none"]
\* the Error object thrown by the k-th attempt of subscription s
SourceError(s, k) == [t |-> "error", subscription |-> s, attempt |-> k]

\* the accumulator the scan callback of subscription s receives
AccumulatorShared(s) ==
  LET RECURSIVE Sum(_)
      Sum(S) == IF S = {} THEN 0
                ELSE LET x == CHOOSE y \in S : TRUE
                     IN errorCount[x] + Sum(S \ {x})
  IN Sum(Subscribers)

Accumulator(s) == errorCount[s]

\* the test of the scan callback: errorCount + 1 >= retryAttempts
LimitReachedOffByOne(s) == Accumulator(s) + 1 > retryAttempts

LimitReachedEarly(s) == Accumulator(s) + 2 >= retryAttempts

LimitReached(s) == Accumulator(s) + 1 >= retryAttempts

\* delay(retryDelay) releases the notification once retryDelay has elapsed
DelayElapsedAtOnce(s) == TRUE

DelayElapsed(s) == timer[s] = retryDelay

\* what a value emitted by the source does to the accumulator of scan: nothing
AfterNextReset(s) == 0

AfterNext(s) == errorCount[s]

IdleRetry ==
  /\ retryAttempts = 0
  /\ retryDelay = 0
  /\ failsBefore = [s \in Subscribers |-> 0]
  /\ pc = [s \in Subscribers |-> "idle"]
  /\ errorCount = [s \in Subscribers |-> 0]
  /\ subscriptions = [s \in Subscribers |-> 0]
  /\ failures = [s \in Subscribers |-> 0]
  /\ emitted = [s \in Subscribers |-> 0]
  /\ timer = [s \in Subscribers |-> 0]
  /\ delivered = [s \in Subscribers |-> <<>>]
  /\ raised = [s \in Subscribers |-> NoError]

\* the wrapped stream is subscribed: retryWhen subscribes the source
Subscribe(s) ==
  /\ pc[s] = "idle"
  /\ pc' = [pc EXCEPT ![s] = "attempt"]
  /\ subscriptions' = [subscriptions EXCEPT ![s] = 1]
  /\ UNCHANGED <<call, result, retryAttempts, retryDelay, failsBefore,
                 errorCount, failures, emitted, timer, delivered, raised>>

\* the source emits a value before the attempt ends; retryWhen passes it on
SourceNext(s) ==
  /\ pc[s] = "attempt"
  /\ emitted[s] < MaxEmit
  /\ emitted' = [emitted EXCEPT ![s] = @ + 1]
  /\ delivered' = [delivered EXCEPT ![s] = Append(@, PartialValue)]
  /\ errorCount' = [errorCount EXCEPT ![s] = AfterNext(s)]
  /\ UNCHANGED <<call, result, retryAttempts, retryDelay, failsBefore, pc,
                 subscriptions, failures, timer, raised>>

\* the attempt after failsBefore failures emits the value and completes
SourceSucceed(s) ==
  /\ pc[s] = "attempt"
  /\ failures[s] = failsBefore[s]
  /\ delivered' = [delivered EXCEPT ![s] = Append(@, SuccessValue)]
  /\ pc' = [pc EXCEPT ![s] = "complete"]
  /\ UNCHANGED <<call, result, retryAttempts, retryDelay, failsBefore,
                 errorCount, subscriptions, failures, emitted, timer, raised>>

\* the attempt fails: the error goes through scan, which throws it or counts it
SourceFail(s) ==
  /\ pc[s] = "attempt"
  /\ failures[s] < failsBefore[s]
  /\ failures' = [failures EXCEPT ![s] = @ + 1]
  /\ IF LimitReached(s)
     THEN /\ raised' = [raised EXCEPT ![s] = SourceError(s, subscriptions[s])]
          /\ pc' = [pc EXCEPT ![s] = "errored"]
          /\ UNCHANGED <<errorCount, timer>>
     ELSE /\ errorCount' = [errorCount EXCEPT ![s] = Accumulator(s) + 1]
          /\ timer' = [timer EXCEPT ![s] = 0]
          /\ pc' = [pc EXCEPT ![s] = "delaying"]
          /\ UNCHANGED raised
  /\ UNCHANGED <<call, result, retryAttempts, retryDelay, failsBefore,
                 subscriptions, emitted, delivered>>

\* one unit of time passes; a delay that is due fires before time moves on
Tick ==
  /\ \E s \in Subscribers : pc[s] = "delaying"
  /\ \A s \in Subscribers : pc[s] = "delaying" => timer[s] < retryDelay
  /\ timer' = [s \in Subscribers |->
                 IF pc[s] = "delaying" THEN timer[s] + 1 ELSE timer[s]]
  /\ UNCHANGED <<call, result, retryAttempts, retryDelay, failsBefore, pc,
                 errorCount, subscriptions, failures, emitted, delivered, raised>>

\* the delayed notification arrives: retryWhen subscribes the source again
Resubscribe(s) ==
  /\ pc[s] = "delaying"
  /\ DelayElapsed(s)
  /\ pc' = [pc EXCEPT ![s] = "attempt"]
  /\ subscriptions' = [subscriptions EXCEPT ![s] = @ + 1]
  /\ emitted' = [emitted EXCEPT ![s] = 0]
  /\ UNCHANGED <<call, result, retryAttempts, retryDelay, failsBefore,
                 errorCount, failures, timer, delivered, raised>>

-----------------------------------------------------------------------------
(* Specifications *)

\* the naming helpers, called with every argument
InitTokens ==
  /\ call = NoCall
  /\ result = NoResult
  /\ IdleRetry

NextTokens ==
  \/ CallGetModelToken
  \/ CallGetConnectionToken
  \/ CallGetConnectionPrefix
  \/ CallGetConnectionName

SpecTokens == InitTokens /\ [][NextTokens]_vars

\* one subscription of a handleRetry(M, d) stream
FirstSubscriber == CHOOSE s \in Subscribers : \A o \in Subscribers : s <= o

Init ==
  /\ call = NoCall
  /\ result = NoResult
  /\ retryAttempts \in 0..MaxAttempts
  /\ retryDelay \in 0..MaxDelay
  /\ failsBefore \in [Subscribers -> 0..MaxFail]
  /\ \A s \in Subscribers \ {FirstSubscriber} : failsBefore[s] = 0
  /\ pc = [s \in Subscribers |-> "idle"]
  /\ errorCount = [s \in Subscribers |-> 0]
  /\ subscriptions = [s \in Subscribers |-> 0]
  /\ failures = [s \in Subscribers |-> 0]
  /\ emitted = [s \in Subscribers |-> 0]
  /\ timer = [s \in Subscribers |-> 0]
  /\ delivered = [s \in Subscribers |-> <<>>]
  /\ raised = [s \in Subscribers |-> NoError]

Next ==
  \/ Subscribe(FirstSubscriber)
  \/ SourceNext(FirstSubscriber)
  \/ SourceSucceed(FirstSubscriber)
  \/ SourceFail(FirstSubscriber)
  \/ Tick
  \/ Resubscribe(FirstSubscriber)

Spec == Init /\ [][Next]_vars

\* several subscriptions of the operator one handleRetry(M, d) call returned
InitShared ==
  /\ call = NoCall
  /\ result = NoResult
  /\ retryAttempts \in 0..MaxAttempts
  /\ retryDelay \in 0..MaxDelay
  /\ failsBefore \in [Subscribers -> 0..MaxFail]
  /\ pc = [s \in Subscribers |-> "idle"]
  /\ errorCount = [s \in Subscribers |-> 0]
  /\ subscriptions = [s \in Subscribers |-> 0]
  /\ failures = [s \in Subscribers |-> 0]
  /\ emitted = [s \in Subscribers |-> 0]
  /\ timer = [s \in Subscribers |-> 0]
  /\ delivered = [s \in Subscribers |-> <<>>]
  /\ raised = [s \in Subscribers |-> NoError]

NextShared ==
  \/ \E s \in Subscribers : Subscribe(s)
  \/ \E s \in Subscribers : SourceSucceed(s)
  \/ \E s \in Subscribers : SourceFail(s)
  \/ Tick
  \/ \E s \in Subscribers : Resubscribe(s)

SpecShared == InitShared /\ [][NextShared]_vars

-----------------------------------------------------------------------------
(* Properties *)

Max1(m) == IF m >= 1 THEN m ELSE 1
Last(q) == q[Len(q)]
Terminal(s) == pc[s] \in {"complete", "errored"}
IsModelCall == call.fn = "getModelToken"
IsReturn == result.kind = "return"
WithoutSeparator(p) == SubSeq(p, 1, Len(p) - 1)

\* the connection argument denotes the default connection
DenotesDefault(c) ==
  \/ c = Undefined
  \/ c = Str(DEFAULT_CONNECTION_NAME)
  \/ c = Options(Undefined)
  \/ c = Options(Str(""))
  \/ c = Options(Str(DEFAULT_CONNECTION_NAME))

\* C1 as stated: when the source fails N times and then succeeds with v and
\* M >= N, the subscriber never receives an error, and a stream that has
\* ended has ended by delivering v.
C1_Original ==
  LET s == FirstSubscriber IN
  retryAttempts >= failsBefore[s] =>
    /\ raised[s] = NoError
    /\ pc[s] # "errored"
    /\ (Terminal(s) => delivered[s] # <<>> /\ Last(delivered[s]) = SuccessValue)

\* C1 amended: when the source fails N times and then succeeds with v, and
\* M > N or N = 0, the subscriber never receives an error, the stream is never
\* stuck before it ends, and it ends by delivering v after N + 1 attempts.
C1_Amended ==
  LET s == FirstSubscriber IN
  (retryAttempts > failsBefore[s] \/ failsBefore[s] = 0) =>
    /\ raised[s] = NoError
    /\ pc[s] # "errored"
    /\ (pc[s] \in {"attempt", "delaying"} => ENABLED Next)
    /\ (Terminal(s) =>
          /\ delivered[s] # <<>>
          /\ Last(delivered[s]) = SuccessValue
          /\ subscriptions[s] = failsBefore[s] + 1)

C1_Witness ==
  LET s == FirstSubscriber IN
  /\ failsBefore[s] >= 2
  /\ retryAttempts > failsBefore[s]
  /\ pc[s] = "complete"
  /\ failures[s] = failsBefore[s]
  /\ Last(delivered[s]) = SuccessValue

\* C2 as stated: when M < N, a stream that has ended has ended
\* with an error after exactly M attempts of the source.
C2_Original ==
  LET s == FirstSubscriber IN
  (retryAttempts < failsBefore[s] /\ Terminal(s)) =>
    /\ pc[s] = "errored"
    /\ subscriptions[s] = retryAttempts

\* C2 amended: when M < N the source is attempted exactly max(1, M) times,
\* after which the stream ends with the error the last attempt threw, the
\* same object, and nothing more happens: no retry is made and no value v
\* is delivered.
C2_Amended ==
  LET s == FirstSubscriber IN
  retryAttempts < failsBefore[s] =>
    /\ pc[s] # "complete"
    /\ subscriptions[s] <= Max1(retryAttempts)
    /\ (pc[s] \in {"attempt", "delaying"} => ENABLED Next)
    /\ (pc[s] = "errored" =>
          /\ subscriptions[s] = Max1(retryAttempts)
          /\ failures[s] = subscriptions[s]
          /\ raised[s] = SourceError(s, subscriptions[s])
          /\ ~ENABLED Next)
    /\ (pc[s] # "errored" => raised[s] = NoError)

C2_Witness ==
  LET s == FirstSubscriber IN
  /\ retryAttempts >= 2
  /\ retryAttempts < failsBefore[s]
  /\ pc[s] = "errored"
  /\ subscriptions[s] = retryAttempts
  /\ raised[s] = SourceError(s, retryAttempts)

\* C3: getModelToken called with a null or undefined model throws the
\* circular-dependency exception, whatever the connection argument is, and
\* returns no token.
C3_AbsentModelThrows ==
  (IsModelCall /\ call.entity.t \in {"null", "undefined"}) =>
    /\ result = Throw(CircularDependencyException("@InjectModel()"))
    /\ ~IsReturn

C3_Witness ==
  /\ IsModelCall
  /\ call.entity = Null
  /\ call.connection = Options(Str("db"))
  /\ result.kind = "throw"
  /\ result.val.name = "CircularDependencyException"

\* C4: for a present model, getModelToken(entity, connection) is the string
\* getConnectionPrefix(connection), then the model's name, then "Repository".
C4_ModelToken ==
  (IsModelCall /\ call.entity.t = "function") =>
    result = Return(Str(getConnectionPrefix(call.connection)
                          \o call.entity.name \o "Repository"))

C4_Witness ==
  /\ IsModelCall
  /\ call.entity = Fn("User")
  /\ call.connection = Options(Str("db"))
  /\ result = Return(Str("db_UserRepository"))

\* C5 as stated: the connection token is a string that begins with the prefix
\* getConnectionPrefix returns for the same connection (and continues with a
\* fixed suffix).
C5_Original ==
  call.fn = "getConnectionToken" =>
    LET prefix == getConnectionPrefix(call.connection) IN
    /\ IsReturn
    /\ result.val.t = "string"
    /\ Len(result.val.v) >= Len(prefix)
    /\ SubSeq(result.val.v, 1, Len(prefix)) = prefix

\* C5 amended: getConnectionToken returns the Sequelize class when the
\* connection denotes the default connection (its prefix is empty), and
\* otherwise the string made of the connection's name, which is the prefix
\* without its trailing "_", and the fixed suffix "Connection".
C5_Amended ==
  call.fn = "getConnectionToken" =>
    LET prefix == getConnectionPrefix(call.connection) IN
    IF prefix = ""
    THEN result = Return(Sequelize)
    ELSE result = Return(Str(WithoutSeparator(prefix) \o "Connection"))

C5_Witness ==
  /\ call.fn = "getConnectionToken"
  /\ call.connection = Options(Str("db"))
  /\ result = Return(Str("dbConnection"))

\* C6: for a string other than the default name, and for an options object
\* whose name is a non-empty string other than the default name,
\* getConnectionPrefix returns that name followed by "_".
C6_NamedPrefix ==
  call.fn = "getConnectionPrefix" =>
    LET c == call.connection IN
    /\ (c.t = "string" /\ c.v # DEFAULT_CONNECTION_NAME) =>
          result = Return(Str(c.v \o "_"))
    /\ (c.t = "object" /\ c.name.t = "string"
          /\ c.name.v \notin {"", DEFAULT_CONNECTION_NAME}) =>
          result = Return(Str(c.name.v \o "_"))

C6_Witness ==
  /\ call.fn = "getConnectionPrefix"
  /\ call.connection = Options(Str("db_"))
  /\ result = Return(Str("db__"))

\* C7: getConnectionPrefix returns the empty string when, and only when, the
\* connection denotes the default connection (omitted, the default name, or
\* options whose name is the default name, empty or absent); for an options
\* argument, those are exactly the cases where getConnectionName returns the
\* default name.
C7_DefaultPrefix ==
  /\ call.fn = "getConnectionPrefix" =>
       (DenotesDefault(call.connection) <=> result = Return(Str("")))
  /\ call.fn = "getConnectionName" =>
       /\ (DenotesDefault(call.connection)
             <=> result = Return(Str(DEFAULT_CONNECTION_NAME)))
       /\ (getConnectionPrefix(call.connection) = ""
             <=> result = Return(Str(DEFAULT_CONNECTION_NAME)))

C7_Witness ==
  /\ call.fn = "getConnectionPrefix"
  /\ call.connection = Options(Str(""))
  /\ result = Return(Str(""))

\* C8: the source is subscribed again only from a pending delay that follows
\* a failure of the previous attempt and has lasted retryDelay in full; and
\* an error reaches the subscriber in the very step of the failure that
\* reaches the limit, never out of a delay.
C8_DelayBeforeRetry ==
  [][\A s \in Subscribers :
       /\ (subscriptions'[s] # subscriptions[s] /\ subscriptions[s] >= 1) =>
             /\ pc[s] = "delaying"
             /\ timer[s] = retryDelay
             /\ failures[s] = subscriptions[s]
             /\ subscriptions'[s] = subscriptions[s] + 1
       /\ (pc[s] # "delaying" /\ pc'[s] = "delaying") =>
             /\ failures'[s] = failures[s] + 1
             /\ timer'[s] = 0
       /\ (raised'[s] # raised[s]) =>
             /\ pc[s] = "attempt"
             /\ failures'[s] = failures[s] + 1
             /\ pc'[s] = "errored"]_vars

C8_Witness ==
  LET s == FirstSubscriber IN
  /\ retryDelay >= 2
  /\ subscriptions[s] >= 2
  /\ pc[s] = "attempt"
  /\ timer[s] = retryDelay

\* C9: with several subscriptions of one handleRetry(M, d) operator, each
\* subscription's outcome depends on its own failures only: it ends in error
\* exactly when it has itself failed max(1, M) times, it completes after its
\* own N failures when N < max(1, M), and its counter never exceeds its own
\* failures.
C9_CounterPerSubscription ==
  \A s \in Subscribers :
    /\ errorCount[s] <= failures[s]
    /\ (pc[s] = "errored" <=> failures[s] >= Max1(retryAttempts))
    /\ (pc[s] = "errored" => failures[s] = Max1(retryAttempts))
    /\ (pc[s] = "complete" =>
          failures[s] = failsBefore[s] /\ failsBefore[s] < Max1(retryAttempts))
    /\ (pc[s] = "delaying" => failures[s] < Max1(retryAttempts))

C9_Witness ==
  \E s, o \in Subscribers :
    /\ s # o
    /\ pc[s] = "errored"
    /\ failures[s] >= 2
    /\ pc[o] = "complete"
    /\ failures[o] >= 1
    /\ failures[s] + failures[o] > retryAttempts

\* C10: within one subscription the counter equals the number of failures
\* counted so far and is not reset by emitted values; the stream ends in
\* error exactly at the failure number max(1, M), so the source is subscribed
\* at most max(1, M) times.
C10_CounterNeverReset ==
  LET s == FirstSubscriber IN
  /\ errorCount[s] = IF pc[s] = "errored" THEN failures[s] - 1 ELSE failures[s]
  /\ (pc[s] = "errored" <=> failures[s] >= Max1(retryAttempts))
  /\ failures[s] <= Max1(retryAttempts)
  /\ subscriptions[s] <= Max1(retryAttempts)

C10_Witness ==
  LET s == FirstSubscriber IN
  /\ retryAttempts >= 2
  /\ pc[s] = "errored"
  /\ failures[s] = retryAttempts
  /\ Len(delivered[s]) >= 2
  /\ Last(delivered[s]) = PartialValue

====
